---- MODULE Spec2Model ----
(***************************************************************************)
(* Model of the Lesson Plan Generator (src/script.js).                     *)
(*                                                                         *)
(* Text is modelled as a sequence of tokens.  A literal piece of a         *)
(* template is one token; the simple form fields (grade, subject, program, *)
(* unit, lesson) are one token when non-empty and no token when empty; the *)
(* standard field is a sequence of one-character tokens so that trim() and *)
(* toLowerCase() act on it as they do in the code.  The empty string is    *)
(* the empty sequence, so the JavaScript truthiness test of a string is    *)
(* the test "is not the empty sequence".                                   *)
(*                                                                         *)
(* The typographic hyphens and dashes of the source literals are written   *)
(* as ASCII "-" and the line breaks and indentation between the HTML       *)
(* elements of the templates are left out.                                 *)
(***************************************************************************)
EXTENDS Naturals, Sequences, FiniteSets

VARIABLES grade, subject, program, unit, lesson, standard,
          outputHtml, outputDisplay, printDisplay,
          objective, lastEvent

vars == <<grade, subject, program, unit, lesson, standard,
          outputHtml, outputDisplay, printDisplay, objective, lastEvent>>

formFields == <<grade, subject, program, unit, lesson, standard>>

(***************************************************************************)
(* Bounds and input domains                                                *)
(***************************************************************************)
MaxStdLen == 2

StdChars == {" ", "A"}

GradeValues == {"", "2"}

SubjectValues == {"Reading", "Math", "Science"}

TypedProgramValues == {"", "Eureka"}

UnitValues == {"", "3"}

LessonValues == {"", "5"}

RECURSIVE SeqsUpTo(_, _)
SeqsUpTo(S, n) ==
  IF n = 0 THEN {<<>>}
  ELSE LET shorter == SeqsUpTo(S, n - 1)
       IN  shorter \cup {Append(s, c) : s \in shorter, c \in S}

StandardValues == SeqsUpTo(StdChars, MaxStdLen)

(***************************************************************************)
(* String primitives                                                       *)
(***************************************************************************)
\* `${x}` for a simple field: nothing when x is empty, else its text
Tok(s) == IF s = "" THEN <<>> ELSE <<s>>

IsSpace(c) == c = " "

RECURSIVE TrimLeft(_)
TrimLeft(s) ==
  IF s # <<>> /\ IsSpace(Head(s)) THEN TrimLeft(Tail(s)) ELSE s

RECURSIVE TrimRight(_)
TrimRight(s) ==
  IF s # <<>> /\ IsSpace(s[Len(s)]) THEN TrimRight(SubSeq(s, 1, Len(s) - 1)) ELSE s

\* String.prototype.trim
Trim(s) == TrimRight(TrimLeft(s))

LowerChar(c) == IF c = "A" THEN "a" ELSE c

\* String.prototype.toLowerCase
ToLowerCase(s) == [i \in 1..Len(s) |-> LowerChar(s[i])]

\* index of the first occurrence of token t in s, 0 when there is none
IndexOf(s, t) ==
  IF \E i \in 1..Len(s) : s[i] = t
  THEN CHOOSE i \in 1..Len(s) : s[i] = t /\ \A j \in 1..(i - 1) : s[j] # t
  ELSE 0

\* String.prototype.replace with a string pattern: first occurrence only
Replace(s, t, r) ==
  LET i == IndexOf(s, t)
  IN  IF i = 0 THEN s
      ELSE SubSeq(s, 1, i - 1) \o r \o SubSeq(s, i + 1, Len(s))

Contains(s, t) == \E i \in 1..Len(s) : s[i] = t

\* s contains r as a contiguous run of tokens
ContainsSeq(s, r) ==
  \E i \in 0..(Len(s) - Len(r)) : SubSeq(s, i + 1, i + Len(r)) = r

\* the tokens of s before the first token that lies in stops
Until(s, stops) ==
  IF \E i \in 1..Len(s) : s[i] \in stops
  THEN LET k == CHOOSE i \in 1..Len(s) :
                  s[i] \in stops /\ \A j \in 1..(i - 1) : s[j] \notin stops
       IN  SubSeq(s, 1, k - 1)
  ELSE s

\* the tokens of s after the first occurrence of t, none when t is absent
After(s, t) ==
  IF IndexOf(s, t) = 0 THEN <<>> ELSE SubSeq(s, IndexOf(s, t) + 1, Len(s))

\* what the rendered text shows between the label t and the next stop token
Between(s, t, stops) == Until(After(s, t), stops)

Count(s, t) == Cardinality({i \in 1..Len(s) : s[i] = t})

(***************************************************************************)
(* generateKidFriendlyObjective                                            *)
(***************************************************************************)
defaultProgram(subj) == IF subj = "Reading" THEN "Amplify" ELSE "Bluebonnet"

\* const prog = program || (subject === 'Reading' ? 'Amplify' : 'Bluebonnet')
progOf(prog, subj) == IF prog # "" THEN prog ELSE defaultProgram(subj)

unitLessonPart(u, l) ==
  LET afterUnit == IF u # "" THEN <<"Unit ", u>> ELSE <<>>
  IN  IF l # ""
      THEN afterUnit \o (IF afterUnit # <<>> THEN <<", Lesson ", l>> ELSE <<"Lesson ", l>>)
      ELSE afterUnit

skillPhrase(subj) == IF subj = "Reading" THEN "our reading skills" ELSE "our math skills"

\* variant: the standard is not lower-cased
conceptPart_keepCase(std) == IF std # <<>> THEN <<" about ">> \o std ELSE <<>>

conceptPart(std) == IF std # <<>> THEN <<" about ">> \o ToLowerCase(std) ELSE <<>>

generateKidFriendlyObjective(prog, subj, u, l, std) ==
  <<"We will", " ", "explore ">>
    \o (IF unitLessonPart(u, l) # <<>> THEN unitLessonPart(u, l) ELSE <<"our lesson">>)
    \o <<" from the ">> \o Tok(progOf(prog, subj)) \o <<" ">> \o Tok(subj) \o <<" program">>
    \o conceptPart(std)
    \o <<" to develop ", skillPhrase(subj), ".">>

(***************************************************************************)
(* generatePlan                                                            *)
(***************************************************************************)
standardDisplay(std) == IF std # <<>> THEN std ELSE <<>>

\* variant: a lesson without a unit is not displayed
unitLessonDisplay_unitOnly(u, l) ==
  IF u # ""
  THEN Tok(u) \o (IF l # "" THEN <<"/">> ELSE <<>>) \o Tok(l)
  ELSE <<>>

\* variant: unit and lesson are joined without the separator
unitLessonDisplay_noSlash(u, l) ==
  IF u # "" \/ l # "" THEN Tok(u) \o Tok(l) ELSE <<>>

unitLessonDisplay(u, l) ==
  IF u # "" \/ l # ""
  THEN Tok(u) \o (IF u # "" /\ l # "" THEN <<"/">> ELSE <<>>) \o Tok(l)
  ELSE <<>>

\* a || b on strings
OrElse(a, b) == IF a # <<>> THEN a ELSE b

RowEnd == "</td></tr>"

InfoHeader == "<h2>Section 1 - Lesson Information</h2>"

GradeSubjectRowLabel == "<tr><td style=\"font-weight:bold;\">Grade / Subject</td><td>"

UnitLessonRowLabel == "<tr><td style=\"font-weight:bold;\">Unit / Lesson #</td><td>"

TeksRowLabel == "<tr><td style=\"font-weight:bold;\">TEKS</td><td>"

infoSection(g, subj, u, l, std) ==
  << InfoHeader,
     "<table style=\"width:100%; border-collapse: collapse;\">",
     "<tr><td style=\"font-weight:bold; width:30%;\">Teacher</td><td>__________________________</td></tr>",
     GradeSubjectRowLabel >>
    \o OrElse(Tok(g), <<"K-2">>) \o <<" ">> \o Tok(subj) \o <<RowEnd>>
    \o << "<tr><td style=\"font-weight:bold;\">Lesson Date</td><td>__________________________</td></tr>",
          UnitLessonRowLabel >>
    \o OrElse(unitLessonDisplay(u, l), <<"___/___">>) \o <<RowEnd>>
    \o <<TeksRowLabel>>
    \o OrElse(standardDisplay(std), <<"__________________________">>) \o <<RowEnd>>
    \o << "<tr><td style=\"font-weight:bold;\">Lesson Duration</td><td>__________________________</td></tr>",
          "</table>" >>

successCriteria(subj) ==
  IF subj = "Reading"
  THEN << "Use phonological or phonics skills (e.g., blend and segment sounds, decode high-frequency words).",
          "Demonstrate comprehension by answering text-dependent questions and summarizing key ideas.",
          "Apply new vocabulary in speaking and writing activities." >>
  ELSE << "Demonstrate conceptual understanding by solving problems using appropriate strategies or models.",
          "Explain mathematical reasoning verbally or in writing.",
          "Apply new vocabulary and use manipulatives or visuals to justify solutions." >>

\* successCriteria.map(c => `<li>${c}</li>`).join('')
RECURSIVE ListItems(_)
ListItems(cs) ==
  IF cs = <<>> THEN <<>> ELSE <<"<li>", Head(cs), "</li>">> \o ListItems(Tail(cs))

ObjHeader == "<h2>Section 2 - Objective, Learning Goals & Success Criteria</h2>"

objSection(obj, subj) ==
  << ObjHeader, "<p><strong>Lesson Objective:</strong> " >>
    \o Replace(obj, "We will", <<"Students will">>)
    \o << " (include decoding, comprehension, vocabulary, skills as appropriate).</p>",
          "<p><strong>Student-Friendly Learning Goal:</strong> \"" >>
    \o Replace(obj, "We will", <<"Today I will">>)
    \o << "\"</p>", "<p><strong>Success Criteria (Distinguished):</strong></p>", "<ul>" >>
    \o ListItems(successCriteria(subj))
    \o << "</ul>" >>

AssessmentHeader == "<h2>Section 3 - Formative Assessment & Exit Ticket</h2>"

ChoralItem == "<li><input type=\"checkbox\"/> Choral read accuracy</li>"

assessmentSection(subj) ==
  << AssessmentHeader,
     "<p><strong>Checks for Understanding Throughout Lesson:</strong></p>",
     "<ul style=\"list-style-type:none;\">",
     "<li><input type=\"checkbox\"/> Whiteboard responses</li>",
     "<li><input type=\"checkbox\"/> Turn & Talk</li>",
     "<li><input type=\"checkbox\"/> Cold call</li>",
     "<li><input type=\"checkbox\"/> Partner reading checks</li>" >>
    \o (IF subj = "Reading" THEN <<ChoralItem>> ELSE <<>>)
    \o << "<li><input type=\"checkbox\"/> Vocabulary application</li>",
          "</ul>",
          "<p><strong>Exit Ticket:</strong> _________________________________________________</p>" >>

MaterialsHeader == "<h2>Section 4 - Materials & Resources</h2>"

TeacherGuideItem == " Teacher Guide / Slides</li>"

\* variant: the subject test is inverted
materialsItems_inverted(subj) ==
  IF subj # "Reading"
  THEN << "<li>Vocabulary Cards</li><li>Decodables / Knowledge Text</li>" >>
  ELSE << "<li>Manipulatives / Math Tools</li><li>Eureka Math/", "Bluebonnet", " Materials</li>" >>

materialsItems(subj) ==
  IF subj = "Reading"
  THEN << "<li>Vocabulary Cards</li><li>Decodables / Knowledge Text</li>" >>
  ELSE << "<li>Manipulatives / Math Tools</li><li>Eureka Math/", "Bluebonnet", " Materials</li>" >>

materialsSection(prog, subj) ==
  << MaterialsHeader, "<ul>", "<li>" >> \o Tok(prog) \o << TeacherGuideItem >>
    \o materialsItems(subj)
    \o << "<li>Whiteboards / Markers</li>",
          "<li>Anchor Charts</li>",
          "<li>PAX GBG Team Board</li>",
          "<li>Fundamental Five Frame-the-Lesson Board</li>",
          "<li>Other: _____________________________________</li>",
          "</ul>" >>

CultureHeader == "<h2>Section 5 - Classroom Culture (PAX + Fundamental Five)</h2>"

cultureSection ==
  << CultureHeader,
     "<table style=\"width:100%; border-collapse: collapse;\">",
     "<tr><td style=\"font-weight:bold; width:30%;\">PAX Vision for Lesson</td><td>More of: ________ | Less of: ________</td></tr>",
     "<tr><td style=\"font-weight:bold;\">PAX Signals & Routines</td><td>Harmonicas, PAX Quiet, PAX Hands/Eyes/Heart</td></tr>",
     "<tr><td style=\"font-weight:bold;\">Good Behavior Game Rounds</td><td><label><input type=\"checkbox\"/> Whole Group Reading / Instruction</label><label><input type=\"checkbox\"/> Partner Work</label><label><input type=\"checkbox\"/> Independent Practice</label></td></tr>",
     "<tr><td style=\"font-weight:bold;\">PAX Kernels</td><td><label><input type=\"checkbox\"/> Tootles</label><label><input type=\"checkbox\"/> Beat the Timer</label><label><input type=\"checkbox\"/> Random Sticks</label><label><input type=\"checkbox\"/> Wacky Prizes</label></td></tr>",
     "<tr><td style=\"font-weight:bold;\">Fundamental Five Elements</td><td>Frame the Lesson, Power Zone, Frequent Talk, Recognize & Reinforce, Critical Writing</td></tr>",
     "</table>" >>

FrameHeader == "<h2>Section 6 - Lesson Frame (Fundamental Five)</h2>"

frameSection(obj, subj) ==
  << FrameHeader,
     "<table style=\"width:100%; border-collapse: collapse;\">",
     "<tr><td style=\"font-weight:bold; width:30%;\">Frame the Lesson (Beginning)</td><td>",
     "<p><strong>Today we will...</strong> " >>
    \o Trim(Replace(obj, "We will", <<>>)) \o << ".</p>" >>
    \o << "<p><strong>You will know you are successful when...</strong> ",
          successCriteria(subj)[1], "</p>", RowEnd,
          "<tr><td style=\"font-weight:bold;\">Frame the Lesson (End)</td><td><p>Review the objective and success criteria. Provide a reflective prompt or exit question for students to connect learning back to the goal.</p></td></tr>",
          "</table>" >>

ProceduresHeadingOpen == "<h2>Section 7 - Lesson Procedures ("

ProceduresHeadingClose == " + TTESS Distinguished)</h2>"

partCTitle(subj) ==
  IF subj = "Reading" THEN "Read-Aloud / Decodable Reading"
  ELSE "Concept Instruction / Guided Practice"

partCModeling(subj) ==
  IF subj = "Reading" THEN "fluency and comprehension strategies"
  ELSE "mathematical concept or problem-solving strategy"

partDItems(subj) ==
  IF subj = "Reading"
  THEN "<li>Blending and segmenting sounds; dictation or spelling patterns</li><li>Small-group adjustments based on student needs</li><li>PAX reinforcement (e.g., tootles)</li>"
  ELSE "<li>Problem sets using manipulatives; fact fluency games</li><li>Small-group adjustments to differentiate for skill levels</li><li>PAX reinforcement for on-task math discussion</li>"

\* variant: the item is chosen by testing for Math instead of Reading
partEItem_testsMath(subj) ==
  IF subj = "Math" THEN "Pair-problem solving and explanation"
  ELSE "Rereading, retelling or comprehension tasks"

partEItem(subj) ==
  IF subj = "Reading" THEN "Rereading, retelling or comprehension tasks"
  ELSE "Pair-problem solving and explanation"

partFStations(subj) ==
  IF subj = "Reading"
  THEN << "<li>Station 1: Decodable practice using ", "Amplify",
          " games</li><li>Station 2: Vocabulary activity or graphic organizer</li><li>Station 3: Writing response to reading</li>" >>
  ELSE << "<li>Station 1: Problem solving with manipulatives</li><li>Station 2: Math games (e.g., number bonds, math facts)</li><li>Station 3: Application problems using ",
          "Bluebonnet", " digital tools</li>" >>

proceduresSection(prog, subj) ==
  << ProceduresHeadingOpen >> \o Tok(prog) \o << ProceduresHeadingClose >>
    \o << "<h3>A. Opening Routine (3-5 min)</h3>",
          "<ul><li>PAX Quiet signal and attention getter</li><li>Review objective and success criteria with students</li><li>Engage prior knowledge or connection to previous lesson</li></ul>",
          "<h3>B. Vocabulary & Knowledge Building (5-8 min)</h3>",
          "<ul><li>Introduce new vocabulary with student-friendly definitions</li><li>Use gestures, images or realia to reinforce understanding</li><li>Have students Turn & Talk using the vocabulary in context</li><li>Begin a PAX GBG mini-round to reinforce focus and cooperation</li></ul>",
          "<h3>C. ", partCTitle(subj), " (10-15 min)</h3>",
          "<ul><li>Teacher modeling of ", partCModeling(subj), "</li>",
          "<li>Pose text-dependent or concept questions to check understanding</li><li>Incorporate Turn & Talk and other CFUs (Cold call, whiteboard responses)</li><li>Record student evidence responses to gauge progress</li></ul>",
          "<h3>D. Skills Practice / Word Work (10-12 min)</h3>",
          "<ul>", partDItems(subj), "</ul>",
          "<h3>E. Partner Practice (5-8 min)</h3>",
          "<ul><li>Students engage in purposeful talk tasks</li>",
          "<li>", partEItem(subj), "</li>",
          "<li>Conduct GBG mini-round #2 to maintain focus</li></ul>",
          "<h3>F. Independent Practice / Stations (8-12 min)</h3>",
          "<p>Set up stations with tasks aligned to the lesson objective:</p>",
          "<ul>" >>
    \o partFStations(subj)
    \o << "<li>Teacher small-group: Provide guided instruction and feedback to targeted learners</li></ul>",
          "<h3>G. Closure & Exit Ticket (5 min)</h3>",
          "<ul><li>Review the learning goal and success criteria</li><li>Ask students to reflect on how they met the goal; incorporate FSGPT</li><li>Administer exit ticket aligned to the objective</li><li>Celebrate with PAX tootles or quick recognition</li></ul>" >>

DifferentiationHeader == "<h2>Section 8 - Differentiation</h2>"

differentiationSection ==
  << DifferentiationHeader,
     "<table style=\"width:100%; border-collapse: collapse;\"><tr><th style=\"text-align:left; width:30%;\">Student Group</th><th style=\"text-align:left;\">Supports Planned</th></tr>",
     "<tr><td>Struggling Learners</td><td>Provide concrete supports (e.g., manipulatives, additional phonics practice), scaffolded questioning, and more frequent check-ins.</td></tr>",
     "<tr><td>On-Level Learners</td><td>Offer guided practice with gradual release, peer collaboration, and feedback opportunities.</td></tr>",
     "<tr><td>Advanced Learners</td><td>Challenge with extension tasks, open-ended problems or enrichment texts, and opportunities to teach peers.</td></tr>",
     "<tr><td>Students Needing Behavior Support</td><td>Use PAX kernels and clear expectations, positive recognition, and structured choices to encourage engagement.</td></tr></table>" >>

ReflectionHeader == "<h2>Section 9 - Teacher Reflection (Distinguished Requirement)</h2>"

reflectionSection ==
  << ReflectionHeader,
     "<p>After the lesson, reflect on the following prompts. Document your responses in the space provided:</p>",
     "<ul><li>What evidence showed mastery?</li><li>What misunderstandings appeared?</li><li>How will I adjust instruction tomorrow?</li><li>How did PAX & Fundamental Five improve engagement?</li></ul>",
     "<p>Notes: ________________________________________________</p>" >>

AdminHeader == "<h2>Section 10 - Administrator Look-Fors (Distinguished Alignment)</h2>"

adminSection ==
  << AdminHeader,
     "<p>This lesson is designed to produce evidence in:</p>",
     "<ul><li><strong>Domain 1 (Planning)</strong>: alignment to TEKS/standards, intentional strategies, differentiation for varied learners.</li><li><strong>Domain 2 (Instruction)</strong>: student engagement, effective questioning, checks for understanding, student thinking and discourse.</li><li><strong>Domain 3 (Classroom Culture)</strong>: PAX routines and kernels, respectful interactions, classroom management, joy in learning.</li></ul>" >>

GuideHeader == "<h2>Lesson Internalization Guide</h2>"

internalizationGuide ==
  << GuideHeader,
     "<p>Prior to teaching, use this guide to internalize the lesson:</p>",
     "<ul><li><strong>Key Concepts & Vocabulary:</strong> Identify essential ideas and words students must understand.</li><li><strong>Anticipated Misconceptions:</strong> What errors or misunderstandings might occur? Plan strategies to address them.</li><li><strong>Differentiation & Scaffolds:</strong> How will you adjust for struggling and advanced learners? What supports will you provide?</li><li><strong>Cross-Curricular Connections:</strong> How does this lesson connect to other subjects or real-world experiences?</li><li><strong>Fundamental Five Strategies:</strong> Plan for framing the lesson, positioning in the power zone, frequent purposeful talk, recognition and reinforcement, and critical writing.</li><li><strong>PAX Integration:</strong> How will you use PAX GBG rounds and kernels to support a positive culture?</li><li><strong>Assessment & Evidence:</strong> What specific evidence will show that students met the success criteria?</li></ul>",
     "<p><em>Use these prompts to jot down notes and ensure you are fully prepared for high-quality instruction.</em></p>" >>

OverviewHeader == "<h2>Overview</h2>"

OverviewGradeLabel == "<p><strong>Grade:</strong> "

OverviewSubjectLabel == " | <strong>Subject:</strong> "

OverviewProgramLabel == " | <strong>Program:</strong> "

OverviewUnitLessonLabel == " | <strong>Unit/Lesson:</strong> "

OverviewStandardLabel == " | <strong>Standard/Concept:</strong> "

OverviewEnd == "</p>"

overviewLine(g, subj, prog, u, l, std) ==
  << OverviewHeader, OverviewGradeLabel >> \o Tok(g)
    \o << OverviewSubjectLabel >> \o Tok(subj)
    \o << OverviewProgramLabel >> \o Tok(prog)
    \o << OverviewUnitLessonLabel >> \o OrElse(unitLessonDisplay(u, l), <<"-">>)
    \o (IF standardDisplay(std) # <<>>
        THEN << OverviewStandardLabel >> \o standardDisplay(std)
        ELSE <<>>)
    \o << OverviewEnd >>

generatePlan(g, subj, std, obj, prog, u, l) ==
  overviewLine(g, subj, prog, u, l, std)
    \o infoSection(g, subj, u, l, std)
    \o objSection(obj, subj)
    \o assessmentSection(subj)
    \o materialsSection(prog, subj)
    \o cultureSection
    \o frameSection(obj, subj)
    \o proceduresSection(prog, subj)
    \o differentiationSection
    \o reflectionSection
    \o adminSection
    \o internalizationGuide

(***************************************************************************)
(* The page: form fields, output container, print button and the handlers  *)
(***************************************************************************)
ProgramValues == TypedProgramValues \cup {"Amplify", "Bluebonnet"}

TypeOK ==
  /\ grade \in GradeValues
  /\ subject \in SubjectValues
  /\ program \in ProgramValues
  /\ unit \in UnitValues
  /\ lesson \in LessonValues
  /\ standard \in StandardValues
  /\ outputDisplay \in {"none", "block"}
  /\ printDisplay \in {"none", "inline-block"}
  /\ lastEvent \in {"load", "input", "change", "submit"}

\* DOMContentLoaded: the handlers are attached and nothing has been rendered
\* yet; the form holds whatever the teacher has entered in the text fields
Init ==
  /\ grade \in GradeValues
  /\ subject \in SubjectValues
  /\ program \in ProgramValues
  /\ unit \in UnitValues
  /\ lesson \in LessonValues
  /\ standard \in StandardValues
  /\ outputHtml = <<>>
  /\ outputDisplay = "none"
  /\ printDisplay = "none"
  /\ objective = <<>>
  /\ lastEvent = "load"

\* variant: the new plan is appended to the container's content
Submit_append ==
  LET std == Trim(standard)
      obj == generateKidFriendlyObjective(program, subject, unit, lesson, std)
  IN  /\ objective' = obj
      /\ outputHtml' = outputHtml \o generatePlan(grade, subject, std, obj, program, unit, lesson)
      /\ outputDisplay' = "block"
      /\ printDisplay' = "inline-block"
      /\ lastEvent' = "submit"
      /\ UNCHANGED formFields

\* variant: the standard is not trimmed
Submit_noTrim ==
  LET std == standard
      obj == generateKidFriendlyObjective(program, subject, unit, lesson, std)
  IN  /\ objective' = obj
      /\ outputHtml' = generatePlan(grade, subject, std, obj, program, unit, lesson)
      /\ outputDisplay' = "block"
      /\ printDisplay' = "inline-block"
      /\ lastEvent' = "submit"
      /\ UNCHANGED formFields

\* form 'submit' listener
Submit ==
  LET std == Trim(standard)
      obj == generateKidFriendlyObjective(program, subject, unit, lesson, std)
  IN  /\ objective' = obj
      /\ outputHtml' = generatePlan(grade, subject, std, obj, program, unit, lesson)
      /\ outputDisplay' = "block"
      /\ printDisplay' = "inline-block"
      /\ lastEvent' = "submit"
      /\ UNCHANGED formFields

\* variant: every subject other than Reading sets the Math program
SubjectChange_elseMath(s) ==
  /\ s # subject
  /\ subject' = s
  /\ program' = IF s = "Reading" THEN "Amplify" ELSE "Bluebonnet"
  /\ lastEvent' = "change"
  /\ UNCHANGED <<grade, unit, lesson, standard,
                 outputHtml, outputDisplay, printDisplay, objective>>

\* subject 'change' listener; the select already holds the new value s
SubjectChange(s) ==
  /\ s # subject
  /\ subject' = s
  /\ program' = IF s = "Reading" THEN "Amplify"
                ELSE IF s = "Math" THEN "Bluebonnet"
                ELSE program
  /\ lastEvent' = "change"
  /\ UNCHANGED <<grade, unit, lesson, standard,
                 outputHtml, outputDisplay, printDisplay, objective>>

\* The teacher retypes a text field; no listener of the script runs.  The
\* standard is entered before the first event and kept.
TypeGrade(v) ==
  /\ v # grade
  /\ grade' = v
  /\ lastEvent' = "input"
  /\ UNCHANGED <<subject, program, unit, lesson, standard,
                 outputHtml, outputDisplay, printDisplay, objective>>

TypeProgram(v) ==
  /\ v # program
  /\ program' = v
  /\ lastEvent' = "input"
  /\ UNCHANGED <<grade, subject, unit, lesson, standard,
                 outputHtml, outputDisplay, printDisplay, objective>>

TypeUnit(v) ==
  /\ v # unit
  /\ unit' = v
  /\ lastEvent' = "input"
  /\ UNCHANGED <<grade, subject, program, lesson, standard,
                 outputHtml, outputDisplay, printDisplay, objective>>

TypeLesson(v) ==
  /\ v # lesson
  /\ lesson' = v
  /\ lastEvent' = "input"
  /\ UNCHANGED <<grade, subject, program, unit, standard,
                 outputHtml, outputDisplay, printDisplay, objective>>

Next ==
  \/ Submit
  \/ \E s \in SubjectValues : SubjectChange(s)
  \/ \E v \in GradeValues : TypeGrade(v)
  \/ \E v \in TypedProgramValues : TypeProgram(v)
  \/ \E v \in UnitValues : TypeUnit(v)
  \/ \E v \in LessonValues : TypeLesson(v)

Spec == Init /\ [][Next]_vars

(***************************************************************************)
(* What the rendered plan in the output container shows                    *)
(***************************************************************************)
SectionHeaders ==
  { OverviewHeader, InfoHeader, ObjHeader, AssessmentHeader, MaterialsHeader,
    CultureHeader, FrameHeader, ProceduresHeadingOpen, DifferentiationHeader,
    ReflectionHeader, AdminHeader, GuideHeader }

\* the last submit rendered the form as it stands now
Rendered == lastEvent = "submit"

shownMaterials == Between(outputHtml, MaterialsHeader, SectionHeaders)

shownInfoGrade == Between(outputHtml, GradeSubjectRowLabel, {" "})

shownInfoUnitLesson == Between(outputHtml, UnitLessonRowLabel, {RowEnd})

shownInfoTeks == Between(outputHtml, TeksRowLabel, {RowEnd})

shownOverview == Between(outputHtml, OverviewHeader, {OverviewEnd})

shownOverviewGrade == Between(outputHtml, OverviewGradeLabel, {OverviewSubjectLabel})

shownOverviewProgram == Between(outputHtml, OverviewProgramLabel, {OverviewUnitLessonLabel})

shownOverviewUnitLesson ==
  Between(outputHtml, OverviewUnitLessonLabel, {OverviewStandardLabel, OverviewEnd})

overviewHasStandard == Contains(shownOverview, OverviewStandardLabel)

shownOverviewStandard == Between(shownOverview, OverviewStandardLabel, {OverviewEnd})

shownTeacherGuideProgram == Between(shownMaterials, "<li>", {TeacherGuideItem})

shownProceduresProgram == Between(outputHtml, ProceduresHeadingOpen, {ProceduresHeadingClose})

(***************************************************************************)
(* Properties                                                              *)
(***************************************************************************)

\* C1: whenever the rendered request has subject "Math", whatever the other
\* fields hold, the Section 4 "Materials & Resources" fragment of the plan
\* contains the text "Bluebonnet".
C1_MathMaterialsNameBluebonnet ==
  Rendered /\ subject = "Math" => Contains(shownMaterials, "Bluebonnet")

C1_Witness ==
  /\ Rendered /\ subject = "Math" /\ program = ""
  /\ Contains(shownMaterials, "Bluebonnet")

\* C2 as stated: whenever unit is blank, whatever lesson holds, the
\* "Unit / Lesson #" row of Section 1 contains the placeholder "___/___".
C2_BlankUnitShowsPlaceholder ==
  Rendered /\ unit = "" => Contains(shownInfoUnitLesson, "___/___")

\* C2 amended: when unit is blank the "Unit / Lesson #" row of Section 1
\* shows the placeholder "___/___" if lesson is blank too, and the lesson
\* value alone otherwise.
C2_BlankUnitRow ==
  Rendered /\ unit = "" =>
    shownInfoUnitLesson = (IF lesson = "" THEN <<"___/___">> ELSE <<lesson>>)

C2_Witness ==
  /\ Rendered /\ unit = "" /\ lesson = ""
  /\ shownInfoUnitLesson = <<"___/___">>

\* C3: for each of grade, unit, lesson and standard that is blank, every
\* place of the rendered plan that displays it (the Overview line and the
\* Section 1 table) shows a non-empty placeholder, never an empty value.
C3_BlankFieldsShowPlaceholders ==
  Rendered =>
    /\ grade = "" => shownInfoGrade # <<>> /\ shownOverviewGrade # <<>>
    /\ (unit = "" \/ lesson = "") =>
         shownInfoUnitLesson # <<>> /\ shownOverviewUnitLesson # <<>>
    /\ Trim(standard) = <<>> =>
         /\ shownInfoTeks # <<>>
         /\ overviewHasStandard => shownOverviewStandard # <<>>

\* C4: when program is blank at submit and subject is Reading or Math, the
\* objective, the Overview line, the Section 4 "Teacher Guide / Slides" item
\* and the Section 7 heading all show the subject's default program.
C4_BlankProgramDefaultedEverywhere ==
  Rendered /\ program = "" /\ subject \in {"Reading", "Math"} =>
    LET d == IF subject = "Reading" THEN "Amplify" ELSE "Bluebonnet"
    IN  /\ Contains(objective, d)
        /\ shownOverviewProgram = <<d>>
        /\ shownTeacherGuideProgram = <<d>>
        /\ shownProceduresProgram = <<d>>

ReadingFragments ==
  { "Use phonological or phonics skills (e.g., blend and segment sounds, decode high-frequency words).",
    "Demonstrate comprehension by answering text-dependent questions and summarizing key ideas.",
    "Apply new vocabulary in speaking and writing activities.",
    "<li><input type=\"checkbox\"/> Choral read accuracy</li>",
    "<li>Vocabulary Cards</li><li>Decodables / Knowledge Text</li>",
    "Read-Aloud / Decodable Reading",
    "fluency and comprehension strategies",
    "<li>Blending and segmenting sounds; dictation or spelling patterns</li><li>Small-group adjustments based on student needs</li><li>PAX reinforcement (e.g., tootles)</li>",
    "Rereading, retelling or comprehension tasks",
    "<li>Station 1: Decodable practice using ",
    " games</li><li>Station 2: Vocabulary activity or graphic organizer</li><li>Station 3: Writing response to reading</li>",
    "our reading skills" }

MathFragments ==
  { "Demonstrate conceptual understanding by solving problems using appropriate strategies or models.",
    "Explain mathematical reasoning verbally or in writing.",
    "Apply new vocabulary and use manipulatives or visuals to justify solutions.",
    "<li>Manipulatives / Math Tools</li><li>Eureka Math/",
    " Materials</li>",
    "Concept Instruction / Guided Practice",
    "mathematical concept or problem-solving strategy",
    "<li>Problem sets using manipulatives; fact fluency games</li><li>Small-group adjustments to differentiate for skill levels</li><li>PAX reinforcement for on-task math discussion</li>",
    "Pair-problem solving and explanation",
    "<li>Station 1: Problem solving with manipulatives</li><li>Station 2: Math games (e.g., number bonds, math facts)</li><li>Station 3: Application problems using ",
    " digital tools</li>",
    "our math skills" }

\* C5: a rendered plan holds every fragment of the Reading bundle and none
\* of the Math bundle when subject is "Reading", and every fragment of the
\* Math bundle and none of the Reading bundle for any other subject.
C5_OneProseBundle ==
  Rendered =>
    IF subject = "Reading"
    THEN /\ \A t \in ReadingFragments : Contains(outputHtml, t)
         /\ \A t \in MathFragments : ~Contains(outputHtml, t)
    ELSE /\ \A t \in MathFragments : Contains(outputHtml, t)
         /\ \A t \in ReadingFragments : ~Contains(outputHtml, t)

C5_Witness ==
  /\ Rendered /\ subject = "Science"
  /\ Contains(outputHtml, "Pair-problem solving and explanation")
  /\ ~Contains(outputHtml, "Rereading, retelling or comprehension tasks")

\* C6: right after any submit, whatever events came before, the output
\* container holds exactly one plan, the one rendered from the form fields
\* as they stand, the container is displayed as "block" and the print
\* button as "inline-block".
C6_SubmitRendersForm ==
  Rendered =>
    /\ outputHtml =
         generatePlan(grade, subject, Trim(standard),
                      generateKidFriendlyObjective(program, subject, unit, lesson,
                                                   Trim(standard)),
                      program, unit, lesson)
    /\ Count(outputHtml, OverviewHeader) = 1
    /\ outputDisplay = "block"
    /\ printDisplay = "inline-block"

C6_Witness ==
  /\ Rendered /\ subject = "Reading" /\ program = "Bluebonnet" /\ grade = ""
  /\ Head(outputHtml) = OverviewHeader
  /\ Count(outputHtml, OverviewHeader) = 1
  /\ outputDisplay = "block" /\ printDisplay = "inline-block"

\* C7: a subject-change event sets program to "Amplify" for Reading and to
\* "Bluebonnet" for Math, leaves it alone for any other subject, and changes
\* none of the other text fields, the output container's content and
\* visibility, or the print button's visibility.
C7_SubjectChangeFrame ==
  [][ lastEvent' = "change" =>
        /\ program' = (IF subject' = "Reading" THEN "Amplify"
                       ELSE IF subject' = "Math" THEN "Bluebonnet"
                       ELSE program)
        /\ UNCHANGED <<grade, unit, lesson, standard,
                       outputHtml, outputDisplay, printDisplay>> ]_vars

C7_Witness ==
  /\ lastEvent = "change" /\ subject = "Science" /\ program = "Eureka"
  /\ outputDisplay = "block" /\ outputHtml # <<>>

\* C8: the unit/lesson display is "<unit>/<lesson>", "<unit>", "<lesson>" or
\* empty according to which of the two are given; exactly when it is empty
\* Section 1 shows "___/___" and the Overview line shows "-", and otherwise
\* both places show the display value.
C8_UnitLessonDisplay ==
  Rendered =>
    LET d == IF unit # "" /\ lesson # "" THEN <<unit, "/", lesson>>
             ELSE IF unit # "" THEN <<unit>>
             ELSE IF lesson # "" THEN <<lesson>>
             ELSE <<>>
    IN  /\ unitLessonDisplay(unit, lesson) = d
        /\ (shownInfoUnitLesson = <<"___/___">>) <=> (d = <<>>)
        /\ (shownOverviewUnitLesson = <<"-">>) <=> (d = <<>>)
        /\ d # <<>> => shownInfoUnitLesson = d /\ shownOverviewUnitLesson = d

C8_Witness ==
  /\ Rendered /\ unit = "3" /\ lesson = "5"
  /\ shownInfoUnitLesson = <<"3", "/", "5">>
  /\ shownOverviewUnitLesson = <<"3", "/", "5">>

\* C9: the objective names "Unit <unit>, Lesson <lesson>", "Unit <unit>",
\* "Lesson <lesson>" or "our lesson" according to which of unit and lesson
\* are given, names the program or, when program is blank, the subject's
\* default, and holds " about <standard in lower case>" exactly when the
\* standard passed to it is non-blank.
C9_ObjectiveReferences ==
  Rendered =>
    /\ IF unit # "" /\ lesson # ""
       THEN ContainsSeq(objective, <<"explore ", "Unit ", unit, ", Lesson ", lesson, " from the ">>)
       ELSE IF unit # ""
       THEN ContainsSeq(objective, <<"explore ", "Unit ", unit, " from the ">>)
       ELSE IF lesson # ""
       THEN ContainsSeq(objective, <<"explore ", "Lesson ", lesson, " from the ">>)
       ELSE ContainsSeq(objective, <<"explore ", "our lesson", " from the ">>)
    /\ program # "" => ContainsSeq(objective, <<" from the ", program, " ">>)
    /\ program = "" /\ subject = "Reading" =>
         ContainsSeq(objective, <<" from the ", "Amplify", " ">>)
    /\ program = "" /\ subject = "Math" =>
         ContainsSeq(objective, <<" from the ", "Bluebonnet", " ">>)
    /\ Contains(objective, " about ") <=> (Trim(standard) # <<>>)
    /\ Trim(standard) # <<>> =>
         ContainsSeq(objective,
                     <<" program", " about ">> \o ToLowerCase(Trim(standard))
                       \o <<" to develop ">>)

C9_Witness ==
  /\ Rendered /\ unit = "3" /\ lesson = "5" /\ program = "" /\ subject = "Math"
  /\ standard = <<" ", "A">>
  /\ ContainsSeq(objective, <<" about ", "a", " to develop ">>)

\* C10 as stated: the TEKS row, the Overview line and the objective treat the
\* standard as blank together when its trimmed value is empty, and all three
\* show the trimmed standard otherwise.
C10_ThreeShowTrimmedStandard ==
  Rendered =>
    IF Trim(standard) = <<>>
    THEN /\ shownInfoTeks = <<"__________________________">>
         /\ ~overviewHasStandard
         /\ ~Contains(objective, " about ")
    ELSE /\ shownInfoTeks = Trim(standard)
         /\ overviewHasStandard /\ shownOverviewStandard = Trim(standard)
         /\ ContainsSeq(objective, <<" about ">> \o Trim(standard) \o <<" to develop ">>)

\* C10 amended: the three renderings treat the standard as blank together
\* when its trimmed value is empty; otherwise the TEKS row and the Overview
\* line show the trimmed standard and the objective shows the trimmed
\* standard in lower case.
C10_StandardBlanknessAgrees ==
  Rendered =>
    IF Trim(standard) = <<>>
    THEN /\ shownInfoTeks = <<"__________________________">>
         /\ ~overviewHasStandard
         /\ ~Contains(objective, " about ")
    ELSE /\ shownInfoTeks = Trim(standard)
         /\ overviewHasStandard /\ shownOverviewStandard = Trim(standard)
         /\ ContainsSeq(objective,
                        <<" about ">> \o ToLowerCase(Trim(standard)) \o <<" to develop ">>)

C10_Witness ==
  /\ Rendered /\ standard = <<" ", " ">>
  /\ shownInfoTeks = <<"__________________________">>
  /\ ~overviewHasStandard
  /\ ~Contains(objective, " about ")

====
